---- MODULE Spec2Model ----
(***************************************************************************)
(* Interruption handling of examples/voice_agents/basic_agent.py: the      *)
(* backchannel classifier (InterruptionHandler.is_backchannel), the         *)
(* interruption decision (InterruptionHandler.should_interrupt) and the two *)
(* session event handlers (on_transcription, on_user_speech_committed).     *)
(*                                                                          *)
(* A text is a sequence of characters, each character a one-character       *)
(* string: "ok" is <<"o", "k">>.  Python's None is the value None below.    *)
(***************************************************************************)
EXTENDS FiniteSets, Integers, Sequences, TLC

VARIABLES
    IGNORE_WORDS,     \* the module-level set of ignore words (a mutable Python set)
    is_speaking,      \* session.response_agent.is_speaking, owned by the agent runtime
    pending_replies,  \* generate_reply() requests the agent has not started to speak yet
    last,             \* what the last handler run saw and did
    n_events,         \* events dispatched to the two handlers so far
    n_interrupt,      \* calls of session.response_agent.interrupt()
    n_reply,          \* calls of session.generate_reply() made by on_user_speech_committed
    n_commit_silent,  \* completion events that read is_speaking as False
    turn,             \* the current user turn: its phase and what its events did
    text,             \* the classifier's input
    variant,          \* a second input, derived from text by edits
    edits,            \* case and punctuation edits applied to variant
    hyphen_edits,     \* how many of those edits inserted or deleted a hyphen
    result,           \* is_backchannel(text), once computed
    result_variant,   \* is_backchannel(variant), once computed
    pc                \* "ready" before the classifier ran, "done" after

vars == <<IGNORE_WORDS, is_speaking, pending_replies, last, n_events, n_interrupt, n_reply, n_commit_silent, turn, text, variant, edits, hyphen_edits, result, result_variant, pc>>

handler_vars == <<is_speaking, pending_replies, last, n_events, n_interrupt, n_reply, n_commit_silent, turn>>

text_vars == <<text, variant, edits, hyphen_edits, result, result_variant, pc>>

(***************************************************************************)
(* Bounds of the model.                                                     *)
(***************************************************************************)
\* events dispatched in one run
MaxEvents == 5
\* pieces concatenated into one classifier input
MaxPieces == 3
\* case and punctuation edits applied to one text
MaxEdits == 2

(***************************************************************************)
(* Characters.                                                              *)
(***************************************************************************)
\* string.punctuation, without its backquote character (which no TLA+ string can hold)
string_punctuation == {"!", "\"", "#", "$", "%", "&", "'", "(", ")", "*", "+", ",", "-", ".", "/", ":", ";", "<", "=", ">", "?", "@", "[", "\\", "]", "^", "_", "{", "|", "}", "~"}

\* the ASCII characters str.split() and str.strip() treat as whitespace: space,
\* \t, \n, \r, \f, and (written raw) \x0b, \x1c, \x1d, \x1e, \x1f.  The
\* whitespace characters beyond ASCII (\x85, \xa0, U+2000.., U+3000) are not held.
whitespace == {" ", "\t", "\n", "\r", "\f", "", "", "", "", ""}

ascii_lowercase == <<"a", "b", "c", "d", "e", "f", "g", "h", "i", "j", "k", "l", "m", "n", "o", "p", "q", "r", "s", "t", "u", "v", "w", "x", "y", "z">>

ascii_uppercase == <<"A", "B", "C", "D", "E", "F", "G", "H", "I", "J", "K", "L", "M", "N", "O", "P", "Q", "R", "S", "T", "U", "V", "W", "X", "Y", "Z">>

\* the value None of a payload that carries no text (no text is a one-element
\* sequence holding a four-character string)
None == <<"None">>

\* what a call gives that ends in AttributeError (None has no replace, no strip)
AttributeError == "AttributeError"

(***************************************************************************)
(* The str methods is_backchannel and the handlers use.                     *)
(***************************************************************************)
\* c.lower() of one character
lower_char(c) ==
    IF \E i \in 1..Len(ascii_uppercase) : ascii_uppercase[i] = c
    THEN ascii_lowercase[CHOOSE i \in 1..Len(ascii_uppercase) : ascii_uppercase[i] = c]
    ELSE c

\* c.upper() of one character
upper_char(c) ==
    IF \E i \in 1..Len(ascii_lowercase) : ascii_lowercase[i] = c
    THEN ascii_uppercase[CHOOSE i \in 1..Len(ascii_lowercase) : ascii_lowercase[i] = c]
    ELSE c

\* a mutant of lower: the text is left in the case it came in
lower_Unchanged(s) ==
    s

\* s.lower()
lower(s) ==
    [i \in 1..Len(s) |-> lower_char(s[i])]

\* s.replace(old, new) for one-character old and new
replace(s, old, new) ==
    [i \in 1..Len(s) |-> IF s[i] = old THEN new ELSE s[i]]

\* a mutant of translate: a deleted character leaves a space behind
translate_ToSpace(s, deletechars) ==
    [i \in 1..Len(s) |-> IF s[i] \in deletechars THEN " " ELSE s[i]]

\* s.translate(str.maketrans('', '', deletechars)): every character of deletechars is deleted
translate(s, deletechars) ==
    SelectSeq(s, LAMBDA c : c \notin deletechars)

\* the length of the leading run of s that holds no whitespace
word_end(s) ==
    IF \E i \in 1..Len(s) : s[i] \in whitespace
    THEN (CHOOSE i \in 1..Len(s) : s[i] \in whitespace /\ \A j \in 1..(i - 1) : s[j] \notin whitespace) - 1
    ELSE Len(s)

RECURSIVE split(_)
\* s.split(): the maximal runs of non-whitespace characters, in order
split(s) ==
    IF s = <<>> THEN <<>>
    ELSE IF Head(s) \in whitespace THEN split(Tail(s))
    ELSE <<SubSeq(s, 1, word_end(s))>> \o split(SubSeq(s, word_end(s) + 1, Len(s)))

RECURSIVE lstrip(_)
\* s.lstrip(): leading whitespace removed
lstrip(s) ==
    IF s # <<>> /\ Head(s) \in whitespace THEN lstrip(Tail(s)) ELSE s

RECURSIVE rstrip(_)
\* s.rstrip(): trailing whitespace removed
rstrip(s) ==
    IF s # <<>> /\ s[Len(s)] \in whitespace THEN rstrip(SubSeq(s, 1, Len(s) - 1)) ELSE s

\* s.strip()
strip(s) ==
    rstrip(lstrip(s))

\* set(words)
set(words) ==
    {words[i] : i \in 1..Len(words)}

(***************************************************************************)
(* The configured lexicon.                                                  *)
(***************************************************************************)
\* the set literal IGNORE_WORDS is bound to when the module is loaded
ConfiguredIgnoreWords == {
    <<"y", "e", "a", "h">>,
    <<"y", "e", "p">>,
    <<"y", "e", "s">>,
    <<"o", "k">>,
    <<"o", "k", "a", "y">>,
    <<"a", "l", "r", "i", "g", "h", "t">>,
    <<"h", "m", "m">>,
    <<"m", "h", "m">>,
    <<"a", "h", "a">>,
    <<"u", "h", "-", "h", "u", "h">>,
    <<"u", "h", "h", "u", "h">>,
    <<"m", "m", "-", "h", "m">>,
    <<"r", "i", "g", "h", "t">>,
    <<"s", "u", "r", "e">>,
    <<"c", "o", "r", "r", "e", "c", "t">>,
    <<"y", "e", "a">>,
    <<"o", "k", "a">>}

(***************************************************************************)
(* InterruptionHandler.                                                     *)
(***************************************************************************)
\* the list clean_text.split() of is_backchannel
words_of(t) ==
    split(lower(translate(replace(t, "-", " "), string_punctuation)))

\* InterruptionHandler.is_backchannel(text): text.replace raises for None
is_backchannel(t) ==
    IF t = None THEN AttributeError
    ELSE LET words == words_of(t)
         IN  IF words = <<>> THEN TRUE
             ELSE set(words) \subseteq IGNORE_WORDS

\* a mutant of should_interrupt: the speaking state is not looked at
should_interrupt_AnyState(t, is_agent_speaking) ==
    ~is_backchannel(t)

\* InterruptionHandler.should_interrupt(text, is_agent_speaking)
should_interrupt(t, is_agent_speaking) ==
    IF ~is_agent_speaking THEN FALSE
    ELSE IF t = None THEN is_backchannel(t)
    ELSE IF is_backchannel(t) THEN FALSE
    ELSE TRUE

\* whether should_interrupt(text, is_agent_speaking) evaluates is_backchannel
classifies(is_agent_speaking) ==
    is_agent_speaking

(***************************************************************************)
(* The classifier's inputs.                                                 *)
(***************************************************************************)
\* the texts the documentation of the classifier works through: "", "   ", ".",
\* "Yeah, okay!", "uh-huh", "Yeah but wait"
DocumentedTexts == {
    <<>>,
    <<" ", " ", " ">>,
    <<".">>,
    <<"Y", "e", "a", "h", ",", " ", "o", "k", "a", "y", "!">>,
    <<"u", "h", "-", "h", "u", "h">>,
    <<"Y", "e", "a", "h", " ", "b", "u", "t", " ", "w", "a", "i", "t">>}

\* the pieces longer inputs are put together from: "yeah", "Yeah", "OK", "okay",
\* "uh", "huh", "uhhuh", "but", "ok2", and the separators " ", "-", ",", "!", tab
\* and \x1c
Pieces == {
    <<"y", "e", "a", "h">>,
    <<"Y", "e", "a", "h">>,
    <<"O", "K">>,
    <<"o", "k", "a", "y">>,
    <<"u", "h">>,
    <<"h", "u", "h">>,
    <<"u", "h", "h", "u", "h">>,
    <<"b", "u", "t">>,
    <<"o", "k", "2">>,
    <<" ">>,
    <<"-">>,
    <<",">>,
    <<"!">>,
    <<"\t">>,
    <<"">>}

RECURSIVE PieceTexts(_)
\* the concatenations of at most n pieces
PieceTexts(n) ==
    IF n = 0 THEN {<<>>}
    ELSE LET shorter == PieceTexts(n - 1)
         IN  shorter \cup {t \o p : t \in shorter, p \in Pieces}

\* the inputs of the classifier: every configured word, the documented texts
\* and the concatenations of at most MaxPieces pieces
Texts == ConfiguredIgnoreWords \cup DocumentedTexts \cup PieceTexts(MaxPieces)

\* the texts that are edited: "yeah", "ok", "uhhuh", "uh-huh", "no", "Yeah, ok"
BaseTexts == {
    <<"y", "e", "a", "h">>,
    <<"o", "k">>,
    <<"u", "h", "h", "u", "h">>,
    <<"u", "h", "-", "h", "u", "h">>,
    <<"n", "o">>,
    <<"Y", "e", "a", "h", ",", " ", "o", "k">>}

\* the punctuation characters an edit inserts
EditPunctuation == {",", "-", "'"}

\* whether c is an ASCII letter
is_letter(c) ==
    lower_char(c) # c \/ upper_char(c) # c

(***************************************************************************)
(* The state after start-up.                                               *)
(***************************************************************************)
\* no handler has run yet
NoEvent == [trigger |-> "none", content |-> <<>>, speaking |-> FALSE, interrupt |-> FALSE, reply |-> FALSE, log |-> "NONE", classified |-> FALSE, raised |-> FALSE]

\* no user turn has begun yet
NoTurn == [phase |-> "idle", content |-> <<>>, interrupts |-> 0, replies |-> 0, silent_commits |-> 0]

\* the session has started: the lexicon is the configured one, the agent is
\* silent, and MyAgent.on_enter has asked for the greeting
InitHandlers ==
    /\ IGNORE_WORDS = ConfiguredIgnoreWords
    /\ is_speaking = FALSE
    /\ pending_replies = 1
    /\ last = NoEvent
    /\ n_events = 0
    /\ n_interrupt = 0
    /\ n_reply = 0
    /\ n_commit_silent = 0
    /\ turn = NoTurn

\* the classifier is about to be called on a text of S
InitTexts(S) ==
    /\ text \in S
    /\ variant = text
    /\ edits = 0
    /\ hyphen_edits = 0
    /\ result = FALSE
    /\ result_variant = FALSE
    /\ pc = "ready"

(***************************************************************************)
(* The classifier as a step, and the edits of its input.                    *)
(***************************************************************************)
\* is_backchannel is called on the text and on its variant
Classify ==
    /\ pc = "ready"
    /\ result' = is_backchannel(text)
    /\ result_variant' = is_backchannel(variant)
    /\ pc' = "done"
    /\ UNCHANGED <<IGNORE_WORDS, handler_vars, text, variant, edits, hyphen_edits>>

\* the letter at position i of the variant changes case
SwapCase(i) ==
    /\ pc = "ready"
    /\ edits < MaxEdits
    /\ is_letter(variant[i])
    /\ variant' = [variant EXCEPT ![i] = IF lower_char(variant[i]) # variant[i] THEN lower_char(variant[i]) ELSE upper_char(variant[i])]
    /\ edits' = edits + 1
    /\ UNCHANGED <<IGNORE_WORDS, handler_vars, text, hyphen_edits, result, result_variant, pc>>

\* the punctuation character c is inserted after position i of the variant
InsertPunctuation(i, c) ==
    /\ pc = "ready"
    /\ edits < MaxEdits
    /\ variant' = SubSeq(variant, 1, i) \o <<c>> \o SubSeq(variant, i + 1, Len(variant))
    /\ edits' = edits + 1
    /\ hyphen_edits' = IF c = "-" THEN hyphen_edits + 1 ELSE hyphen_edits
    /\ UNCHANGED <<IGNORE_WORDS, handler_vars, text, result, result_variant, pc>>

\* the punctuation character at position i of the variant is removed
DeletePunctuation(i) ==
    /\ pc = "ready"
    /\ edits < MaxEdits
    /\ variant[i] \in string_punctuation
    /\ variant' = SubSeq(variant, 1, i - 1) \o SubSeq(variant, i + 1, Len(variant))
    /\ edits' = edits + 1
    /\ hyphen_edits' = IF variant[i] = "-" THEN hyphen_edits + 1 ELSE hyphen_edits
    /\ UNCHANGED <<IGNORE_WORDS, handler_vars, text, result, result_variant, pc>>

\* the classifier on every input
ClassifyInit == InitHandlers /\ InitTexts(Texts)

ClassifyNext == Classify

ClassifySpec == ClassifyInit /\ [][ClassifyNext]_vars

\* the classifier on a text and on an edited copy of it
EditInit == InitHandlers /\ InitTexts(BaseTexts)

EditNext ==
    \/ \E i \in 1..Len(variant) : SwapCase(i)
    \/ \E i \in 0..Len(variant), c \in EditPunctuation : InsertPunctuation(i, c)
    \/ \E i \in 1..Len(variant) : DeletePunctuation(i)
    \/ Classify

EditSpec == EditInit /\ [][EditNext]_vars

(***************************************************************************)
(* Claims about the classifier.                                             *)
(***************************************************************************)
RECURSIVE reference_tokens(_, _, _)
\* the tokens of the part s of a text, read character by character: a hyphen or
\* a whitespace character ends the token cur, any other punctuation character
\* is dropped, any other character joins cur in lower case
reference_tokens(s, cur, acc) ==
    IF s = <<>> THEN (IF cur = <<>> THEN acc ELSE Append(acc, cur))
    ELSE IF Head(s) = "-" \/ Head(s) \in whitespace
         THEN reference_tokens(Tail(s), <<>>, IF cur = <<>> THEN acc ELSE Append(acc, cur))
    ELSE IF Head(s) \in string_punctuation
         THEN reference_tokens(Tail(s), cur, acc)
    ELSE reference_tokens(Tail(s), Append(cur, lower_char(Head(s))), acc)

\* the reference result: true for no token, else true exactly when every token
\* is a member of the lexicon
reference_is_backchannel(t) ==
    LET tokens == reference_tokens(t, <<>>, <<>>)
    IN  \/ tokens = <<>>
        \/ \A i \in 1..Len(tokens) : tokens[i] \in IGNORE_WORDS

\* whether some token of t holds a digit
has_digit_token(t) ==
    LET tokens == reference_tokens(t, <<>>, <<>>)
    IN  \E i \in 1..Len(tokens) : \E j \in 1..Len(tokens[i]) : tokens[i][j] \in {"0", "1", "2", "3", "4", "5", "6", "7", "8", "9"}

\* C3: is_backchannel(w) is true for every entry w of the configured lexicon,
\* the hyphenated entries included.
C3_EveryLexiconEntryIsBackchannel ==
    (pc = "done" /\ text \in IGNORE_WORDS) => result = TRUE

\* C4: for every text, is_backchannel(text) is the reference result: true when
\* the text has no token, otherwise true exactly when every token is in the
\* lexicon; a text with a digit-bearing token is never a backchannel.
C4_ClassifierMatchesReference ==
    pc = "done" =>
        /\ result = reference_is_backchannel(text)
        /\ (reference_tokens(text, <<>>, <<>>) = <<>> => result = TRUE)
        /\ (has_digit_token(text) => result = FALSE)

\* C4's case: "Yeah, okay!" has been classified as a backchannel
C4_Witness ==
    /\ pc = "done"
    /\ text = <<"Y", "e", "a", "h", ",", " ", "o", "k", "a", "y", "!">>
    /\ result = TRUE

\* C9 as stated: two texts that differ only in the case of letters and in the
\* presence or position of punctuation characters, the hyphen included, get
\* the same result.
C9_CaseAndPunctuationInsensitive ==
    pc = "done" => result = result_variant

\* C9 as amended: two texts that differ only in the case of letters and in the
\* presence or position of punctuation characters other than the hyphen get
\* the same result.
C9_InsensitiveExceptHyphen ==
    (pc = "done" /\ hyphen_edits = 0) => result = result_variant

\* C9's case: a backchannel text and an edited copy of it, no hyphen touched,
\* have both been classified
C9_Witness ==
    /\ pc = "done"
    /\ edits = MaxEdits
    /\ hyphen_edits = 0
    /\ variant # text
    /\ result = TRUE
    /\ result_variant = TRUE

(***************************************************************************)
(* The session's events and the agent runtime.                              *)
(***************************************************************************)
\* the texts an event carries: "", " ", "yeah", "Yeah, okay!", "stop", "uh-huh",
\* "yeah" followed by \x0b, and \x0b alone
EventTexts == {
    <<>>,
    <<" ">>,
    <<"y", "e", "a", "h">>,
    <<"Y", "e", "a", "h", ",", " ", "o", "k", "a", "y", "!">>,
    <<"s", "t", "o", "p">>,
    <<"u", "h", "-", "h", "u", "h">>,
    <<"y", "e", "a", "h", "">>,
    <<"">>}

\* the events of the session: msg.content is a str
Messages == [content : EventTexts]

\* the events a runtime can deliver when nothing guards the payload: msg.content
\* is a str or None
RawMessages == [content : EventTexts \cup {None}]

\* the agent starts to speak a reply that was asked for
AgentStartsSpeaking ==
    /\ ~is_speaking
    /\ pending_replies > 0
    /\ is_speaking' = TRUE
    /\ pending_replies' = pending_replies - 1
    /\ UNCHANGED <<IGNORE_WORDS, last, n_events, n_interrupt, n_reply, n_commit_silent, turn, text_vars>>

\* the agent stops speaking: its speech is over, or an interruption took effect
AgentStopsSpeaking ==
    /\ is_speaking
    /\ is_speaking' = FALSE
    /\ UNCHANGED <<IGNORE_WORDS, pending_replies, last, n_events, n_interrupt, n_reply, n_commit_silent, turn, text_vars>>

(***************************************************************************)
(* on_transcription.                                                        *)
(***************************************************************************)
\* a mutant of transcription_returns_early: the empty-text check is lost
transcription_returns_early_Never(msg) ==
    FALSE

\* "if not text: return" for text = msg.content.strip()
transcription_returns_early(msg) ==
    strip(msg.content) = <<>>

\* what on_transcription does to the session on a partial transcript
transcription_step(msg) ==
    /\ n_events < MaxEvents
    /\ n_events' = n_events + 1
    /\ IF msg.content = None
       THEN \* None has no strip(): the AttributeError leaves the handler
            /\ last' = [trigger |-> "partial", content |-> msg.content, speaking |-> is_speaking, interrupt |-> FALSE, reply |-> FALSE, log |-> "NONE", classified |-> FALSE, raised |-> TRUE]
            /\ turn' = IF turn.phase = "partial" THEN turn ELSE [NoTurn EXCEPT !.phase = "partial"]
            /\ UNCHANGED n_interrupt
       ELSE IF transcription_returns_early(msg)
       THEN /\ last' = [trigger |-> "partial", content |-> msg.content, speaking |-> is_speaking, interrupt |-> FALSE, reply |-> FALSE, log |-> "NONE", classified |-> FALSE, raised |-> FALSE]
            /\ turn' = IF turn.phase = "partial" THEN turn ELSE [NoTurn EXCEPT !.phase = "partial"]
            /\ UNCHANGED n_interrupt
       ELSE LET txt == strip(msg.content)
                is_speaking_now == is_speaking
                interrupts == should_interrupt(txt, is_speaking_now)
                opened == IF turn.phase = "partial" THEN turn ELSE [NoTurn EXCEPT !.phase = "partial"]
            IN  /\ last' = [trigger |-> "partial", content |-> msg.content, speaking |-> is_speaking_now, interrupt |-> interrupts, reply |-> FALSE,
                            log |-> IF interrupts THEN "INTERRUPT" ELSE IF is_speaking_now THEN "IGNORE" ELSE "NONE",
                            classified |-> classifies(is_speaking_now), raised |-> FALSE]
                /\ n_interrupt' = IF interrupts THEN n_interrupt + 1 ELSE n_interrupt
                /\ turn' = IF interrupts THEN [opened EXCEPT !.interrupts = @ + 1] ELSE opened
    /\ UNCHANGED <<is_speaking, pending_replies, n_reply, n_commit_silent, text_vars>>

\* a mutant of on_transcription: the words heard are added to the ignore list
on_transcription_Learns(msg) ==
    /\ transcription_step(msg)
    /\ IGNORE_WORDS' = IGNORE_WORDS \cup set(words_of(msg.content))

\* the handler of "user_transcription_received"
on_transcription(msg) ==
    /\ transcription_step(msg)
    /\ IGNORE_WORDS' = IGNORE_WORDS

(***************************************************************************)
(* on_user_speech_committed.                                                *)
(***************************************************************************)
\* a mutant of speech_committed_replies: a backchannel-only turn gets no reply
speech_committed_replies_ToContent(msg) ==
    ~is_speaking /\ ~is_backchannel(msg.content)

\* a mutant of speech_committed_replies: one reply per turn at most
speech_committed_replies_Once(msg) ==
    ~is_speaking /\ turn.replies = 0

\* a mutant of speech_committed_replies: the speaking state is not looked at
speech_committed_replies_Always(msg) ==
    TRUE

\* "if not session.response_agent.is_speaking"
speech_committed_replies(msg) ==
    ~is_speaking

\* the handler of "user_speech_committed"
on_user_speech_committed(msg) ==
    /\ n_events < MaxEvents
    /\ n_events' = n_events + 1
    /\ n_commit_silent' = IF ~is_speaking THEN n_commit_silent + 1 ELSE n_commit_silent
    /\ IF speech_committed_replies(msg)
       THEN IF msg.content = None
            THEN \* None has no strip(): the AttributeError leaves the handler before generate_reply()
                 /\ last' = [trigger |-> "commit", content |-> msg.content, speaking |-> is_speaking, interrupt |-> FALSE, reply |-> FALSE, log |-> "NONE", classified |-> FALSE, raised |-> TRUE]
                 /\ turn' = [turn EXCEPT !.phase = "finalized", !.content = msg.content, !.silent_commits = IF is_speaking THEN @ ELSE @ + 1]
                 /\ UNCHANGED <<n_reply, pending_replies>>
            ELSE /\ last' = [trigger |-> "commit", content |-> msg.content, speaking |-> is_speaking, interrupt |-> FALSE, reply |-> TRUE, log |-> "REPLY", classified |-> FALSE, raised |-> FALSE]
                 /\ turn' = [turn EXCEPT !.phase = "finalized", !.content = msg.content, !.replies = @ + 1, !.silent_commits = IF is_speaking THEN @ ELSE @ + 1]
                 /\ n_reply' = n_reply + 1
                 /\ pending_replies' = pending_replies + 1
       ELSE /\ last' = [trigger |-> "commit", content |-> msg.content, speaking |-> is_speaking, interrupt |-> FALSE, reply |-> FALSE, log |-> "NONE", classified |-> FALSE, raised |-> FALSE]
            /\ turn' = [turn EXCEPT !.phase = "finalized", !.content = msg.content, !.silent_commits = IF is_speaking THEN @ ELSE @ + 1]
            /\ UNCHANGED <<n_reply, pending_replies>>
    /\ UNCHANGED <<IGNORE_WORDS, is_speaking, n_interrupt, text_vars>>

(***************************************************************************)
(* The session.                                                             *)
(***************************************************************************)
\* the classifier's variables are not used by the session
IdleTexts == InitTexts({<<>>})

Init == InitHandlers /\ IdleTexts

Next ==
    \/ \E msg \in Messages : on_transcription(msg)
    \/ \E msg \in Messages : on_user_speech_committed(msg)
    \/ AgentStartsSpeaking
    \/ AgentStopsSpeaking

Spec == Init /\ [][Next]_vars

\* the session with events whose payload nothing guards
RawNext ==
    \/ \E msg \in RawMessages : on_transcription(msg)
    \/ \E msg \in RawMessages : on_user_speech_committed(msg)
    \/ AgentStartsSpeaking
    \/ AgentStopsSpeaking

RawSpec == Init /\ [][RawNext]_vars

(***************************************************************************)
(* Claims about the handlers.                                               *)
(***************************************************************************)
\* C1: on a partial-transcription event interrupt() is called exactly when the
\* stripped text is not empty, the agent is speaking and the text is not a
\* backchannel; a backchannel heard while the agent speaks is logged as IGNORE,
\* and nothing is interrupted while the agent is silent.
C1_InterruptIffSpeakingAndSubstantive ==
    last.trigger = "partial" =>
        /\ last.interrupt = (strip(last.content) # <<>> /\ last.speaking /\ ~is_backchannel(strip(last.content)))
        /\ last.log = "INTERRUPT" <=> last.interrupt
        /\ (last.speaking /\ strip(last.content) # <<>> /\ is_backchannel(strip(last.content))) => last.log = "IGNORE"
        /\ ~last.speaking => last.log = "NONE"
        /\ n_interrupt >= turn.interrupts

\* C1's case: "stop" arrived while the agent was speaking and interrupted it
C1_Witness ==
    /\ last.trigger = "partial"
    /\ last.content = <<"s", "t", "o", "p">>
    /\ last.speaking
    /\ last.interrupt
    /\ n_interrupt > 0

\* C2: on a turn-completion event generate_reply() is called exactly when the
\* agent is not speaking, whatever the text; nothing is done when it speaks.
C2_ReplyIffAgentSilent ==
    last.trigger = "commit" =>
        /\ last.reply = ~last.speaking
        /\ last.log = (IF last.speaking THEN "NONE" ELSE "REPLY")
        /\ ~last.interrupt

\* C2's case: a completed "yeah" found the agent silent and got a reply
C2_Witness ==
    /\ last.trigger = "commit"
    /\ last.content = <<"y", "e", "a", "h">>
    /\ is_backchannel(last.content)
    /\ ~last.speaking
    /\ last.reply
    /\ n_reply > 0

\* C5 as stated: every finalized user turn whose text holds a non-lexicon token
\* results in a generate_reply() call: once the agent has fallen silent with no
\* reply left to speak, the turn has had its call.
C5_SubstantiveTurnGetsReply ==
    (turn.phase = "finalized" /\ ~is_backchannel(turn.content) /\ ~is_speaking /\ pending_replies = 0) => turn.replies > 0

\* C5 as amended: a finalized user turn gets one generate_reply() call for each
\* of its completion events that found the agent silent, and none if the agent
\* was speaking at completion, whatever its text and its partial events did.
C5_TurnRepliedIffCompletionFoundAgentSilent ==
    turn.phase = "finalized" =>
        /\ turn.replies = turn.silent_commits
        /\ turn.silent_commits > 0 => n_reply > 0

\* C5's case: a turn that interrupted the speaking agent with a non-lexicon
\* text was finalized after the agent fell silent, and got its reply
C5_Witness ==
    /\ turn.phase = "finalized"
    /\ ~is_backchannel(turn.content)
    /\ turn.interrupts > 0
    /\ turn.silent_commits > 0
    /\ turn.replies > 0

\* C6 as stated: an event whose stripped text is empty does nothing on either
\* trigger: no classification, no interrupt(), no generate_reply().
C6_EmptyTextDoesNothing ==
    (last.trigger # "none" /\ strip(last.content) = <<>>) =>
        /\ ~last.classified
        /\ ~last.interrupt
        /\ ~last.reply
        /\ last.log = "NONE"

\* C6 as amended: a partial-transcription event whose stripped text is empty
\* does nothing; a turn-completion event whose stripped text is empty
\* classifies and interrupts nothing, and calls generate_reply() exactly when
\* the agent is not speaking.
C6_EmptyTextDoesNothingOnPartial ==
    (last.trigger # "none" /\ strip(last.content) = <<>>) =>
        /\ ~last.classified
        /\ ~last.interrupt
        /\ last.trigger = "partial" => (~last.reply /\ last.log = "NONE")
        /\ last.trigger = "commit" => (last.reply = ~last.speaking)

\* C6's case: a whitespace-only partial transcript arrived while the agent spoke
C6_Witness ==
    /\ last.trigger = "partial"
    /\ last.content = <<" ">>
    /\ last.speaking
    /\ last.log = "NONE"

\* C7: no handler run ends in an error, whatever the payload, None included.
C7_NoErrorState ==
    last.raised = FALSE

\* is_backchannel(t) as it was when the session started
classified_at_startup(t) ==
    LET words == words_of(t)
    IN  words = <<>> \/ set(words) \subseteq ConfiguredIgnoreWords

\* C8: no sequence of events changes the lexicon: at every point of a run it is
\* the set configured at start-up, and every text is classified as it was then.
C8_LexiconNeverChanges ==
    /\ IGNORE_WORDS = ConfiguredIgnoreWords
    /\ \A t \in EventTexts : is_backchannel(t) = classified_at_startup(t)

\* C8's case: both handlers have run, a text has been classified, an interrupt
\* and a reply have been issued, and the lexicon is the configured one
C8_Witness ==
    /\ n_interrupt > 0
    /\ n_reply > 0
    /\ last.classified
    /\ n_events = MaxEvents
    /\ IGNORE_WORDS = ConfiguredIgnoreWords

\* the action the decision table gives for a trigger, a text and the speaking
\* state read at the event
decide(trigger, content, speaking) ==
    IF trigger = "partial"
    THEN IF strip(content) = <<>> THEN "NONE"
         ELSE IF ~speaking THEN "NONE"
         ELSE IF reference_is_backchannel(content) THEN "IGNORE"
         ELSE "INTERRUPT"
    ELSE IF speaking THEN "NONE" ELSE "REPLY"

\* C10: the generate_reply() calls are as many as the completion events that
\* found the agent silent (no at-most-one-reply-per-turn suppression), and what
\* an event does is decided by its trigger, its text and the speaking state
\* read at the event alone.
C10_OneReplyPerSilentCompletion ==
    /\ n_reply = n_commit_silent
    /\ last.trigger # "none" =>
        /\ last.log = decide(last.trigger, last.content, last.speaking)
        /\ last.interrupt = (last.log = "INTERRUPT")
        /\ last.reply = (last.log = "REPLY")

\* C10's case: two completion events of one turn found the agent silent and
\* each got a reply
C10_Witness ==
    /\ turn.phase = "finalized"
    /\ turn.silent_commits = 2
    /\ turn.replies = 2
    /\ n_reply >= 2

====
